---- MODULE Spec2Model ----
(***************************************************************************)
(* A model of ifwifi (src/src/main.rs): the signal classifier, the         *)
(* current-connection test against nmcli's output, the per-network report  *)
(* row, and the process around them (privilege gate, scan, connect).       *)
(*                                                                         *)
(* Text is modelled as a sequence of one-character strings, so that trim,  *)
(* split, starts_with and string equality are computed as the code         *)
(* computes them.  A float is modelled as the f32 it is, a mantissa and a  *)
(* binary exponent, and a decimal text parses to the f32 nearest to it.    *)
(***************************************************************************)
EXTENDS Integers, Sequences, FiniteSets

\* ------------------------------------------------------------------ bounds

\* Signal values are enumerated in steps of 1/Scale dBm.
Scale == 100
\* Signal values run from -MaxAbsDbm dBm ...
MaxAbsDbm == 85
\* ... up to +MaxPosDbm.
MaxPosDbm == 5
\* The longest list of networks a scan returns.
MaxNetworks == 2

\* -------------------------------------------------------------------- text

\* The characters with the Unicode property White_Space, which str::trim
\* removes.  A character that cannot be written in a string here is named by
\* its code point.
WhiteSpace ==
    { "\t", "\n", "U+000B", "\f", "\r", " ", "U+0085", "U+00A0", "U+1680",
      "U+2000", "U+2001", "U+2002", "U+2003", "U+2004", "U+2005", "U+2006",
      "U+2007", "U+2008", "U+2009", "U+200A", "U+2028", "U+2029", "U+202F",
      "U+205F", "U+3000" }

Digits == {"0", "1", "2", "3", "4", "5", "6", "7", "8", "9"}

DigitVal(c) ==
    CASE c = "0" -> 0 [] c = "1" -> 1 [] c = "2" -> 2 [] c = "3" -> 3
      [] c = "4" -> 4 [] c = "5" -> 5 [] c = "6" -> 6 [] c = "7" -> 7
      [] c = "8" -> 8 [] c = "9" -> 9

RECURSIVE TrimStart(_)
TrimStart(s) ==
    IF s # <<>> /\ Head(s) \in WhiteSpace THEN TrimStart(Tail(s)) ELSE s

RECURSIVE TrimEnd(_)
TrimEnd(s) ==
    IF s # <<>> /\ s[Len(s)] \in WhiteSpace
    THEN TrimEnd(SubSeq(s, 1, Len(s) - 1))
    ELSE s

\* str::trim
Trim(s) == TrimEnd(TrimStart(s))

\* str::starts_with
StartsWith(s, p) == Len(s) >= Len(p) /\ SubSeq(s, 1, Len(p)) = p

\* As str::lines would: no piece for an empty text, none after a final
\* line feed.
RECURSIVE Split_lines(_)
Split_lines(s) ==
    IF s = <<>> THEN <<>>
    ELSE IF \E i \in 1..Len(s) : s[i] = "\n"
    THEN LET i == CHOOSE k \in 1..Len(s) :
                     s[k] = "\n" /\ \A j \in 1..(k - 1) : s[j] # "\n"
         IN <<SubSeq(s, 1, i - 1)>> \o Split_lines(SubSeq(s, i + 1, Len(s)))
    ELSE <<s>>

\* str::split('\n') collected: always at least one piece, the last piece is
\* what follows the last separator (empty when the text ends with one).
RECURSIVE Split(_)
Split(s) ==
    IF \E i \in 1..Len(s) : s[i] = "\n"
    THEN LET i == CHOOSE k \in 1..Len(s) :
                     s[k] = "\n" /\ \A j \in 1..(k - 1) : s[j] # "\n"
         IN <<SubSeq(s, 1, i - 1)>> \o Split(SubSeq(s, i + 1, Len(s)))
    ELSE <<s>>

\* Iterator::take(n) collected
Take(q, n) == SubSeq(q, 1, IF Len(q) < n THEN Len(q) ELSE n)

\* The "{:w}" format of a plain string: left-aligned, filled with spaces up to
\* the width, never cut.
RECURSIVE Pad(_, _)
Pad(s, w) == IF Len(s) >= w THEN s ELSE Pad(Append(s, " "), w)

\* ------------------------------------------------------------------ floats

RECURSIVE Pow2(_)
Pow2(e) == IF e = 0 THEN 1 ELSE 2 * Pow2(e - 1)

RECURSIVE Pow10(_)
Pow10(e) == IF e = 0 THEN 1 ELSE 10 * Pow10(e - 1)

\* An f32 is m * 2^e.  A normal number has 2^23 <= |m| < 2^24 and
\* -149 <= e <= 104, a subnormal one |m| < 2^23 and e = -149, zero is 0 * 2^0
\* (the sign of zero is not kept: -0.0 compares as 0.0).  The infinities and
\* NaN carry the exponent 128.
F32(m, e) == [m |-> m, e |-> e]
F32_NaN == F32(0, 128)
F32_Inf == F32(1, 128)
F32_NegInf == F32(-1, 128)
\* f32::default()
F32_Zero == F32(0, 0)

IsNaN(x) == x.m = 0 /\ x.e = 128

\* x >= k for an integer literal k with |k| < 128; every comparison with NaN
\* is false.
Ge(x, k) ==
    IF IsNaN(x) THEN FALSE
    ELSE IF x.m = 0 THEN 0 >= k
    ELSE IF x.e >= 7 THEN x.m > 0
    ELSE IF x.e >= 0 THEN x.m * Pow2(x.e) >= k
    ELSE IF x.e >= -24 THEN x.m >= k * Pow2(-x.e)
    ELSE IF x.m > 0 THEN 0 >= k
    ELSE -1 >= k

\* x < k, likewise.
Lt(x, k) == ~IsNaN(x) /\ ~Ge(x, k)

\* The f32 of the mantissa q and exponent e a rounding ended with, for the
\* sign sgn: a mantissa rounded up to 2^24 moves to the next exponent, an
\* exponent past 104 is an infinity, a mantissa of 0 is zero.
Finish(sgn, q, e) ==
    LET qq == IF q = Pow2(24) THEN Pow2(23) ELSE q
        ee == IF q = Pow2(24) THEN e + 1 ELSE e
    IN  IF qq = 0 THEN F32_Zero
        ELSE IF ee > 104 THEN F32(sgn, 128)
        ELSE F32(sgn * qq, ee)

\* The bits of the fraction r/d below the integer q, taken one at a time
\* until the mantissa is full or the exponent is the smallest one.
RECURSIVE FractionBits(_, _, _, _)
FractionBits(q, r, d, e) ==
    IF q >= Pow2(23) \/ e = -149 THEN [q |-> q, r |-> r, e |-> e]
    ELSE FractionBits(2 * q + ((2 * r) \div d), (2 * r) % d, d, e - 1)

\* The number of low bits an integer of at least 2^24 loses to fit the
\* mantissa.
RECURSIVE ShiftOf(_)
ShiftOf(ip) == IF ip < Pow2(24) THEN 0 ELSE 1 + ShiftOf(ip \div 2)

\* The f32 nearest to n/d, ties to the even mantissa, for |n| < 2^31 and
\* 0 < d <= 10^9.
RoundSmall(n, d) ==
    LET sgn == IF n < 0 THEN -1 ELSE 1
        a == IF n < 0 THEN -n ELSE n
        ip == a \div d
        r == a % d
    IN  IF a = 0 THEN F32_Zero
        ELSE IF ip >= Pow2(24)
        THEN LET s == ShiftOf(ip)
                 q == ip \div Pow2(s)
                 low == ip % Pow2(s)
                 half == Pow2(s - 1)
                 up == low > half \/ (low = half /\ (r > 0 \/ q % 2 = 1))
             IN  Finish(sgn, IF up THEN q + 1 ELSE q, s)
        ELSE LET f == FractionBits(ip, r, d, 0)
                 up == 2 * f.r > d \/ (2 * f.r = d /\ f.q % 2 = 1)
             IN  Finish(sgn, IF up THEN f.q + 1 ELSE f.q, f.e)

\* A natural number of any size: its digits in base 10^4, the lowest first,
\* the highest not 0, none for zero.
Limb == Pow10(4)

RECURSIVE BigMul(_, _, _)
BigMul(a, k, carry) ==
    IF a = <<>>
    THEN IF carry = 0 THEN <<>> ELSE <<carry % Limb>> \o BigMul(<<>>, k, carry \div Limb)
    ELSE LET t == Head(a) * k + carry
         IN  <<t % Limb>> \o BigMul(Tail(a), k, t \div Limb)

\* a * k for 0 < k <= 2^16.
BigTimes(a, k) == BigMul(a, k, 0)

\* -1, 0 or 1 as a is below, equal to or above b.
BigCmp(a, b) ==
    IF Len(a) # Len(b) THEN (IF Len(a) < Len(b) THEN -1 ELSE 1)
    ELSE LET differ == {i \in 1..Len(a) : a[i] # b[i]}
         IN  IF differ = {} THEN 0
             ELSE LET top == CHOOSE i \in differ : \A j \in differ : j <= i
                  IN  IF a[top] < b[top] THEN -1 ELSE 1

RECURSIVE BigDiff(_, _, _)
BigDiff(a, b, borrow) ==
    IF a = <<>> THEN <<>>
    ELSE LET t == Head(a) - (IF b = <<>> THEN 0 ELSE Head(b)) - borrow
             rest == IF b = <<>> THEN <<>> ELSE Tail(b)
         IN  IF t < 0 THEN <<t + Limb>> \o BigDiff(Tail(a), rest, 1)
             ELSE <<t>> \o BigDiff(Tail(a), rest, 0)

RECURSIVE BigStrip(_)
BigStrip(a) ==
    IF a # <<>> /\ a[Len(a)] = 0 THEN BigStrip(SubSeq(a, 1, Len(a) - 1)) ELSE a

\* a - b for a >= b.
BigMinus(a, b) == BigStrip(BigDiff(a, b, 0))

\* The number with the decimal digits ds, the lowest first.
RECURSIVE BigOfDigits(_)
BigOfDigits(ds) ==
    IF Len(ds) <= 4
    THEN BigStrip(<< (IF Len(ds) >= 1 THEN ds[1] ELSE 0)
                     + 10 * (IF Len(ds) >= 2 THEN ds[2] ELSE 0)
                     + 100 * (IF Len(ds) >= 3 THEN ds[3] ELSE 0)
                     + 1000 * (IF Len(ds) >= 4 THEN ds[4] ELSE 0) >>)
    ELSE <<ds[1] + 10 * ds[2] + 100 * ds[3] + 1000 * ds[4]>>
             \o BigOfDigits(SubSeq(ds, 5, Len(ds)))

\* For a > 0 and b > 0: b doubled, and the exponent x raised, until a < 2b;
\* sixteen doublings at a time while that many are needed.
RECURSIVE ScaleDown(_, _, _)
ScaleDown(a, b, x) ==
    IF BigCmp(a, BigTimes(b, Pow2(16))) >= 0
    THEN ScaleDown(a, BigTimes(b, Pow2(15)), x + 15)
    ELSE IF BigCmp(a, BigTimes(b, 2)) >= 0
    THEN ScaleDown(a, BigTimes(b, 2), x + 1)
    ELSE [a |-> a, b |-> b, x |-> x]

\* a doubled, and the exponent x lowered, until b <= a.
RECURSIVE ScaleUp(_, _, _)
ScaleUp(a, b, x) ==
    IF BigCmp(BigTimes(a, Pow2(16)), b) <= 0
    THEN ScaleUp(BigTimes(a, Pow2(16)), b, x - 16)
    ELSE IF BigCmp(a, b) < 0
    THEN ScaleUp(BigTimes(a, 2), b, x - 1)
    ELSE [a |-> a, b |-> b, x |-> x]

\* n more bits of the quotient below q, r < b being what is left over.
RECURSIVE QuotientBits(_, _, _, _)
QuotientBits(q, r, b, n) ==
    IF n = 0 THEN [q |-> q, r |-> r]
    ELSE LET r2 == BigTimes(r, 2)
         IN  IF BigCmp(r2, b) >= 0
             THEN QuotientBits(2 * q + 1, BigMinus(r2, b), b, n - 1)
             ELSE QuotientBits(2 * q, r2, b, n - 1)

RECURSIVE Zeros(_)
Zeros(n) == IF n <= 0 THEN <<>> ELSE <<0>> \o Zeros(n - 1)

Reverse(s) == [i \in 1..Len(s) |-> s[Len(s) + 1 - i]]

\* The f32 nearest to ds * 10^p, ties to the even mantissa, for the decimal
\* digits ds (the highest first, the first not 0) of any length.  The value
\* is brought to (a / b) * 2^x with 1 <= a / b < 2; a normal f32 takes 24
\* bits of it, a subnormal one the bits down to 2^-149.
RoundBig(sgn, ds, p) ==
    IF ds = <<>> THEN F32_Zero
    ELSE IF Len(ds) + p > 39 THEN F32(sgn, 128)
    ELSE IF Len(ds) + p < -45 THEN F32_Zero
    ELSE
    LET a0 == BigOfDigits(Zeros(p) \o Reverse(ds))
        b0 == BigOfDigits(Zeros(-p) \o <<1>>)
        down == ScaleDown(a0, b0, 0)
        n == ScaleUp(down.a, down.b, down.x)
        bits == IF n.x >= -126 THEN 24 ELSE n.x + 150
    IN  IF bits < 0 THEN F32_Zero
        ELSE IF bits = 0
        THEN Finish(sgn, IF BigCmp(n.a, n.b) > 0 THEN 1 ELSE 0, -149)
        ELSE
        LET f == QuotientBits(1, BigMinus(n.a, n.b), n.b, bits - 1)
            c == BigCmp(BigTimes(f.r, 2), n.b)
            up == c > 0 \/ (c = 0 /\ f.q % 2 = 1)
        IN  Finish(sgn, IF up THEN f.q + 1 ELSE f.q, n.x - (bits - 1))

RECURSIVE DigitsVal(_)
DigitsVal(s) ==
    IF s = <<>> THEN 0
    ELSE 10 * DigitsVal(SubSeq(s, 1, Len(s) - 1)) + DigitVal(s[Len(s)])

\* The length of the longest prefix of s made of digits.
RECURSIVE DigitPrefix(_)
DigitPrefix(s) ==
    IF s # <<>> /\ Head(s) \in Digits THEN 1 + DigitPrefix(Tail(s)) ELSE 0

RECURSIVE StripZeros(_)
StripZeros(s) == IF s # <<>> /\ Head(s) = "0" THEN StripZeros(Tail(s)) ELSE s

Lower(c) ==
    CASE c = "I" -> "i" [] c = "N" -> "n" [] c = "F" -> "f" [] c = "T" -> "t"
      [] c = "Y" -> "y" [] c = "A" -> "a" [] OTHER -> c

LowerAll(s) == [i \in 1..Len(s) |-> Lower(s[i])]

ParseErr == [ok |-> FALSE, val |-> F32_Zero]
ParseOk(x) == [ok |-> TRUE, val |-> x]

\* The number the digits of an exponent stand for, read from the left onto
\* acc: a digit is taken in only while the number is still below 2^16, the
\* digits after that are passed over.
RECURSIVE ExpDigits(_, _)
ExpDigits(acc, s) ==
    IF s = <<>> THEN acc
    ELSE ExpDigits(IF acc < Pow2(16) THEN 10 * acc + DigitVal(Head(s)) ELSE acc, Tail(s))

\* The exponent part of a decimal: empty, or e/E, an optional sign and at
\* least one digit, up to the end of the text.
ParseExp(s) ==
    IF s = <<>> THEN [ok |-> TRUE, e |-> 0]
    ELSE IF Head(s) \notin {"e", "E"} THEN [ok |-> FALSE, e |-> 0]
    ELSE LET r == Tail(s)
             neg == r # <<>> /\ Head(r) = "-"
             ds == IF r # <<>> /\ Head(r) \in {"+", "-"} THEN Tail(r) ELSE r
             abs == ExpDigits(0, ds)
         IN IF ds = <<>> \/ DigitPrefix(ds) # Len(ds)
            THEN [ok |-> FALSE, e |-> 0]
            ELSE [ok |-> TRUE, e |-> IF neg THEN -abs ELSE abs]

\* str::parse::<f32>: an optional sign, then inf, infinity or nan in any case,
\* or digits with an optional point and exponent, with a digit on at least
\* one side of the point; nothing is trimmed and nothing may follow.  The
\* value is the f32 nearest to the decimal.
ParseF32(s) ==
    IF s = <<>> THEN ParseErr
    ELSE
    LET neg == Head(s) = "-"
        body == IF Head(s) \in {"+", "-"} THEN Tail(s) ELSE s
        word == LowerAll(body)
        ni == DigitPrefix(body)
        int == SubSeq(body, 1, ni)
        afterInt == SubSeq(body, ni + 1, Len(body))
        hasPoint == afterInt # <<>> /\ Head(afterInt) = "."
        afterPoint == IF hasPoint THEN Tail(afterInt) ELSE afterInt
        nf == IF hasPoint THEN DigitPrefix(afterPoint) ELSE 0
        frac == SubSeq(afterPoint, 1, nf)
        ex == ParseExp(SubSeq(afterPoint, nf + 1, Len(afterPoint)))
        ds == StripZeros(int \o frac)
        p == ex.e - nf
        sgn == IF neg THEN -1 ELSE 1
    IN  IF word \in {<<"i", "n", "f">>,
                     <<"i", "n", "f", "i", "n", "i", "t", "y">>}
        THEN ParseOk(IF neg THEN F32_NegInf ELSE F32_Inf)
        ELSE IF word = <<"n", "a", "n">> THEN ParseOk(F32_NaN)
        ELSE IF ni + nf = 0 \/ ~ex.ok THEN ParseErr
        ELSE IF Len(ds) <= 9 /\ p <= 0 /\ p >= -9
             THEN ParseOk(RoundSmall(sgn * DigitsVal(ds), Pow10(-p)))
             ELSE ParseOk(RoundBig(sgn, [i \in 1..Len(ds) |-> DigitVal(ds[i])], p))

\* As unwrap_or(-100.0) would: an unparsable level counts as no signal.
UnwrapOrLowest(r) == IF r.ok THEN r.val ELSE F32(-13107200, -17)

\* Result::unwrap_or_default
UnwrapOrDefault(r) == IF r.ok THEN r.val ELSE F32_Zero

\* -------------------------------------------------------------- classifier

Tiers == {"Maximum", "Excellent", "Good", "Reliable", "Weak", "Unreliable", "Bad"}

\* As with "signal > -30.00" in the first test: -30 itself falls through
\* every test.
dBm_return_strict(signal) ==
    IF Ge(signal, -30) /\ ~Ge(F32(-signal.m, signal.e), 30)
    THEN [line |-> 123, tier |-> "Maximum"]
    ELSE IF Lt(signal, -30) /\ Ge(signal, -50) THEN [line |-> 125, tier |-> "Excellent"]
    ELSE IF Lt(signal, -50) /\ Ge(signal, -60) THEN [line |-> 127, tier |-> "Good"]
    ELSE IF Lt(signal, -60) /\ Ge(signal, -67) THEN [line |-> 129, tier |-> "Reliable"]
    ELSE IF Lt(signal, -67) /\ Ge(signal, -70) THEN [line |-> 131, tier |-> "Weak"]
    ELSE IF Lt(signal, -70) /\ Ge(signal, -80) THEN [line |-> 133, tier |-> "Unreliable"]
    ELSE IF Lt(signal, -80) THEN [line |-> 135, tier |-> "Bad"]
    ELSE [line |-> 137, tier |-> "Bad"]

\* As with the Reliable and Weak returns exchanged.
dBm_return_swapped(signal) ==
    IF Ge(signal, -30) THEN [line |-> 123, tier |-> "Maximum"]
    ELSE IF Lt(signal, -30) /\ Ge(signal, -50) THEN [line |-> 125, tier |-> "Excellent"]
    ELSE IF Lt(signal, -50) /\ Ge(signal, -60) THEN [line |-> 127, tier |-> "Good"]
    ELSE IF Lt(signal, -60) /\ Ge(signal, -67) THEN [line |-> 129, tier |-> "Weak"]
    ELSE IF Lt(signal, -67) /\ Ge(signal, -70) THEN [line |-> 131, tier |-> "Reliable"]
    ELSE IF Lt(signal, -70) /\ Ge(signal, -80) THEN [line |-> 133, tier |-> "Unreliable"]
    ELSE IF Lt(signal, -80) THEN [line |-> 135, tier |-> "Bad"]
    ELSE [line |-> 137, tier |-> "Bad"]

\* The return statement that decides the result, by its source line, and the
\* tier it returns.
dBm_return(signal) ==
    IF Ge(signal, -30) THEN [line |-> 123, tier |-> "Maximum"]
    ELSE IF Lt(signal, -30) /\ Ge(signal, -50) THEN [line |-> 125, tier |-> "Excellent"]
    ELSE IF Lt(signal, -50) /\ Ge(signal, -60) THEN [line |-> 127, tier |-> "Good"]
    ELSE IF Lt(signal, -60) /\ Ge(signal, -67) THEN [line |-> 129, tier |-> "Reliable"]
    ELSE IF Lt(signal, -67) /\ Ge(signal, -70) THEN [line |-> 131, tier |-> "Weak"]
    ELSE IF Lt(signal, -70) /\ Ge(signal, -80) THEN [line |-> 133, tier |-> "Unreliable"]
    ELSE IF Lt(signal, -80) THEN [line |-> 135, tier |-> "Bad"]
    ELSE [line |-> 137, tier |-> "Bad"]

dBm_signal_measure(signal) == dBm_return(signal).tier

\* ------------------------------------------------------------ input values

\* Texts, as sequences of characters.
S_empty == <<>>
S_ab == <<"a", "b">>
S_ab_sp == <<"a", "b", " ">>
S_sp_ab == <<" ", "a", "b">>
S_AB == <<"A", "B">>
S_cd == <<"c", "d">>
S_yes == <<"y", "e", "s">>
S_yes_colon == <<"y", "e", "s", ":">>

\* What env::var("USER") returns: the name, or why there is none.
Users ==
    { [ok |-> TRUE, name |-> "root"], [ok |-> TRUE, name |-> "alice"],
      [ok |-> TRUE, name |-> "Root"], [ok |-> TRUE, name |-> ""],
      [ok |-> FALSE, name |-> "NotPresent"], [ok |-> FALSE, name |-> "NotUnicode"] }

\* A command-line value that was or was not given.
None == [some |-> FALSE, v |-> <<>>]
Some(v) == [some |-> TRUE, v |-> v]

NoMatches == [sub |-> "", ssid |-> None, password |-> None, interface |-> None]

\* The command lines: no subcommand, scan, and connect with each of its
\* values given or left out.
CommandLines ==
    { NoMatches,
      [sub |-> "scan", ssid |-> None, password |-> None, interface |-> None] }
    \cup
    [ sub : {"connect"},
      ssid : {None, Some(S_ab), Some(S_empty)},
      password : {None, Some(<<"p", "w">>)},
      interface : {None, Some(<<"w", "l", "a", "n", "1">>)} ]

\* What WiFi::connect returns.
ConnectOutcomes == {"Ok(true)", "Ok(false)", "Err(FailedToConnect)", "Err(SsidNotFound)"}

\* The networks a scan may report.  Two share an SSID, one has none, one ends
\* and one begins with a space; the signal levels cover a tier boundary, two
\* decimals that are no f32 and round onto a boundary (one short, one long),
\* one below the lowest f32, and texts that do not parse.
Network(mac, ssid, channel, signal_level, security) ==
    [mac |-> mac, ssid |-> ssid, channel |-> channel,
     signal_level |-> signal_level, security |-> security]

NetworkPool ==
    { Network("m1", S_ab, "1", <<"-", "3", "0">>, "WPA2"),
      Network("m2", S_ab, "6",
              <<"-", "8", "0", ".", "0", "0", "0", "0", "0", "0", "0", "0", "0", "0", "1">>,
              "WPA2"),
      Network("m3", S_empty, "11", <<>>, "Open"),
      Network("m4", S_ab_sp, "1", <<"n", "/", "a">>, "WPA2"),
      Network("m5", S_cd, "36", <<"-", "1", "e", "3", "9">>, "WEP"),
      Network("m6", S_sp_ab, "6",
              <<"-", "3", "0", ".", "0", "0", "0", "0", "0", "0", "1">>, "WPA3") }

RECURSIVE SeqsUpTo(_, _)
SeqsUpTo(S, n) ==
    IF n = 0 THEN {<<>>}
    ELSE LET shorter == SeqsUpTo(S, n - 1)
         IN shorter \cup {Append(q, x) : q \in shorter, x \in S}

\* What wifiscanner::scan() returns: an error, or a list of networks.
ScanResults ==
    {[ok |-> FALSE, list |-> <<>>]}
    \cup {[ok |-> TRUE, list |-> q] : q \in SeqsUpTo(NetworkPool, MaxNetworks)}

\* What running nmcli gives: it cannot be started; or it runs, ends with
\* success or failure, and has written stdout.
Nmcli(spawn, success, out) == [spawn |-> spawn, success |-> success, stdout |-> out]

Line(active, ssid) == active \o <<":">> \o ssid \o <<"\n">>

NmcliResponses ==
    { Nmcli(FALSE, FALSE, <<>>),
      Nmcli(TRUE, FALSE, <<>>),
      Nmcli(TRUE, TRUE, <<>>),
      Nmcli(TRUE, TRUE, Line(S_yes, S_ab) \o Line(<<"n", "o">>, S_cd)),
      Nmcli(TRUE, TRUE, Line(<<"n", "o">>, S_ab) \o Line(S_yes, S_cd)),
      Nmcli(TRUE, TRUE, Line(S_yes, S_cd)),
      Nmcli(TRUE, TRUE, Line(S_yes, S_ab_sp)),
      Nmcli(TRUE, TRUE, Line(S_yes, S_sp_ab)),
      Nmcli(TRUE, TRUE, Line(S_yes, S_empty)),
      Nmcli(TRUE, TRUE, <<" ", "\n">> \o Line(S_yes, S_ab)),
      Nmcli(TRUE, TRUE, <<"y", "e", "s", "\n">>),
      Nmcli(TRUE, TRUE, <<"\f">> \o S_yes_colon \o S_ab \o <<"U+00A0", "\n">>),
      Nmcli(TRUE, TRUE, Line(S_yes, S_AB)),
      Nmcli(TRUE, TRUE, <<"y", "e", "s", ":", "a", "b">>) }

\* ----------------------------------------------------------------- program

VARIABLES
    pc,          \* where the process is: "main", "matches", "scan", "scan_loop", "connect", "exit"
    user,        \* what env::var("USER") returns
    argv,        \* the command line
    matches,     \* what get_matches() made of it, NoMatches before
    nmcli,       \* what running nmcli would give now
    networks,    \* the list wifiscanner::scan() returned
    idx,         \* the position of the scan loop in networks
    query,       \* the last call of is_connected: <<>> or <<[ssid, nm, ret]>>
    stdout,      \* what the process has written to its standard output
    stdoutOk,    \* whether a write to the standard output succeeds now
    result,      \* what main returned: "none", "Ok", "Err"
    panic,       \* the panic message, "" when there was none
    exitStatus,  \* the exit status, -1 while the process runs
    isRoot,      \* the values is_root has returned
    scanCalls,   \* the calls of wifiscanner::scan() made
    wifiCalls,   \* the calls of WiFi::connect made
    sigA, sigB,  \* two inputs of the classifier
    retA, retB   \* what the classifier returned for them, <<>> before it ran

progVars == <<pc, user, argv, matches, nmcli, networks, idx, query, stdout, stdoutOk,
              result, panic, exitStatus, isRoot, scanCalls, wifiCalls>>
classVars == <<sigA, sigB, retA, retB>>
vars == <<progVars, classVars>>

Returned(v) == [panic |-> "", value |-> v]
Panicked(msg) == [panic |-> msg, value |-> FALSE]

\* As without take(1): any line of the output may match.
is_connected_any_line(ssid, nm) ==
    IF ~nm.spawn THEN Panicked("failed to run nmcli")
    ELSE
    LET ssid_comp == S_yes_colon \o ssid
        lines == Split(nm.stdout)
    IN  Returned(\E i \in 1..Len(lines) : ssid_comp = Trim(lines[i]))

\* is_connected(ssid), with what the nmcli it runs gives.  The output is taken
\* as text already: from_utf8_lossy decodes any bytes and never fails.  The
\* exit status of nmcli is not read.
is_connected(ssid, nm) ==
    IF ~nm.spawn THEN Panicked("failed to run nmcli")
    ELSE
    LET ssid_comp == S_yes_colon \o ssid
        taken == Take(Split(nm.stdout), 1)
    IN  IF Len(taken) < 1 THEN Panicked("index out of bounds")
        ELSE
        LET output == taken[1]
        IN  IF StartsWith(Trim(output), S_yes)
            THEN IF ssid_comp = Trim(output) THEN Returned(TRUE) ELSE Returned(FALSE)
            ELSE Returned(FALSE)

Printed(kind, text) == [kind |-> kind, text |-> text]

\* What println! panics with when the write to the standard output fails.
PrintPanic == "failed printing to stdout"

\* As with hidden networks (no ssid) left out of the report.
scan_table_format_hidden(network_info, nm, writable) ==
    LET signal_level ==
            dBm_signal_measure(UnwrapOrDefault(ParseF32(network_info.signal_level)))
        connected == is_connected(network_info.ssid, nm)
        fields == <<network_info.mac, network_info.ssid, network_info.channel,
                    Pad(network_info.signal_level, 4)>>
    IN  IF connected.panic # ""
        THEN [panic |-> connected.panic, prints |-> <<>>]
        ELSE IF network_info.ssid = <<>>
        THEN [panic |-> "", prints |-> <<>>]
        ELSE IF ~writable
        THEN [panic |-> PrintPanic, prints |-> <<>>]
        ELSE [panic |-> "",
              prints |->
                << Printed("row", <<IF connected.value = TRUE THEN "*" ELSE " ">> \o fields),
                   Printed("tier", <<signal_level>>),
                   Printed("security", <<network_info.security>>) >>]

\* scan_table_format(network_info), with what the nmcli it runs gives and
\* whether the standard output can be written: what it writes, and the panic
\* that ended it if one did.  The standard output is line-buffered: the two
\* print! calls only fill the buffer, the println! of line 98 writes the
\* line, and panics when the write fails.
scan_table_format(network_info, nm, writable) ==
    LET signal_level ==
            dBm_signal_measure(UnwrapOrDefault(ParseF32(network_info.signal_level)))
        connected == is_connected(network_info.ssid, nm)
        fields == <<network_info.mac, network_info.ssid, network_info.channel,
                    Pad(network_info.signal_level, 4)>>
    IN  IF connected.panic # ""
        THEN [panic |-> connected.panic, prints |-> <<>>]
        ELSE IF ~writable
        THEN [panic |-> PrintPanic, prints |-> <<>>]
        ELSE [panic |-> "",
              prints |->
                << Printed("row", <<IF connected.value = TRUE THEN "*" ELSE " ">> \o fields),
                   Printed("tier", <<signal_level>>),
                   Printed("security", <<network_info.security>>) >>]

\* is_root(), with what env::var("USER") returns.
is_root(env) == IF ~env.ok THEN FALSE ELSE IF env.name # "root" THEN FALSE ELSE TRUE

is_root_prints(env) ==
    IF ~env.ok THEN <<Printed("message", <<"Something went very wrong", env.name>>)>>
    ELSE IF env.name # "root" THEN <<Printed("message", <<"You must be root!">>)>>
    ELSE <<>>

\* What get_matches() makes of the command line: the interface defaults to
\* wlan0; a connect without its required ssid or password is refused.
Rejected(cmd) == cmd.sub = "connect" /\ (~cmd.ssid.some \/ ~cmd.password.some)

get_matches(cmd) ==
    [cmd EXCEPT !.interface =
        IF cmd.sub = "connect" /\ ~cmd.interface.some
        THEN Some(<<"w", "l", "a", "n", "0">>)
        ELSE cmd.interface]

\* What connect returns, given what WiFi::connect returned.
connect_result(status) == "Ok"

\* The exit status of a process whose main returned r.
ExitStatusOf(r) == IF r = "Ok" THEN 0 ELSE 1

PanicStatus == 101

Exit(status) == pc' = "exit" /\ exitStatus' = status

\* main: the privilege gate.  When is_root has a message to print and the
\* write fails, println! panics inside is_root, which then returns nothing.
MainIsRoot ==
    /\ pc = "main"
    /\ IF is_root_prints(user) # <<>> /\ ~stdoutOk
       THEN /\ panic' = PrintPanic
            /\ Exit(PanicStatus)
            /\ UNCHANGED <<isRoot, stdout>>
       ELSE /\ isRoot' = Append(isRoot, is_root(user))
            /\ stdout' = stdout \o is_root_prints(user)
            /\ IF is_root(user) = FALSE
               THEN Exit(2)
               ELSE pc' = "matches" /\ UNCHANGED exitStatus
            /\ UNCHANGED panic
    /\ UNCHANGED <<user, argv, matches, nmcli, networks, idx, query, stdoutOk, result,
                   scanCalls, wifiCalls>>

\* main: get_matches and the match on the subcommand.
MainSubcommand ==
    /\ pc = "matches"
    /\ IF Rejected(argv)
       THEN Exit(1) /\ UNCHANGED <<matches, result>>
       ELSE /\ matches' = get_matches(argv)
            /\ IF matches'.sub = "scan" THEN pc' = "scan" /\ UNCHANGED <<result, exitStatus>>
               ELSE IF matches'.sub = "connect"
               THEN pc' = "connect" /\ UNCHANGED <<result, exitStatus>>
               ELSE result' = "Ok" /\ Exit(ExitStatusOf("Ok"))
    /\ UNCHANGED <<user, argv, nmcli, networks, idx, query, stdout, stdoutOk, panic,
                   isRoot, scanCalls, wifiCalls>>

\* scan: the call of wifiscanner::scan().
ScanNetworks ==
    /\ pc = "scan"
    /\ scanCalls' = scanCalls + 1
    /\ \E r \in ScanResults :
         IF ~r.ok
         THEN /\ panic' = "Cannot scan network"
              /\ Exit(PanicStatus)
              /\ UNCHANGED <<networks, idx>>
         ELSE /\ networks' = r.list
              /\ idx' = 1
              /\ pc' = "scan_loop"
              /\ UNCHANGED <<panic, exitStatus>>
    /\ UNCHANGED <<user, argv, matches, nmcli, query, stdout, stdoutOk, result, isRoot,
                   wifiCalls>>

\* scan: one turn of the loop, the whole of scan_table_format for one network.
ScanTableFormat ==
    /\ pc = "scan_loop"
    /\ idx <= Len(networks)
    /\ LET network == networks[idx]
           row == scan_table_format(network, nmcli, stdoutOk)
       IN  /\ query' = << [ssid |-> network.ssid, nm |-> nmcli,
                           ret |-> is_connected(network.ssid, nmcli)] >>
           /\ stdout' = stdout \o row.prints
           /\ IF row.panic # ""
              THEN panic' = row.panic /\ Exit(PanicStatus) /\ UNCHANGED idx
              ELSE idx' = idx + 1 /\ UNCHANGED <<pc, panic, exitStatus>>
    /\ UNCHANGED <<user, argv, matches, nmcli, networks, stdoutOk, result, isRoot,
                   scanCalls, wifiCalls>>

\* scan: the end of the loop, Ok(()), which main returns.
ScanReturn ==
    /\ pc = "scan_loop"
    /\ idx > Len(networks)
    /\ result' = "Ok"
    /\ Exit(ExitStatusOf("Ok"))
    /\ UNCHANGED <<user, argv, matches, nmcli, networks, idx, query, stdout, stdoutOk,
                   panic, isRoot, scanCalls, wifiCalls>>

\* connect, which main returns: WiFi::connect is called, and the println! of
\* what it returned panics when the write fails.
Connect ==
    /\ pc = "connect"
    /\ \E status \in ConnectOutcomes :
         /\ wifiCalls' = Append(wifiCalls,
                [ssid |-> matches.ssid.v, password |-> matches.password.v,
                 interface |-> matches.interface.v, returned |-> status])
         /\ IF ~stdoutOk
            THEN /\ panic' = PrintPanic
                 /\ Exit(PanicStatus)
                 /\ UNCHANGED <<stdout, result>>
            ELSE /\ stdout' = Append(stdout,
                                     Printed("status", <<"Connection Status", status>>))
                 /\ result' = connect_result(status)
                 /\ Exit(ExitStatusOf(connect_result(status)))
                 /\ UNCHANGED panic
    /\ UNCHANGED <<user, argv, matches, nmcli, networks, idx, query, stdoutOk,
                   isRoot, scanCalls>>

\* The network manager's state changes while the scan loop runs.
NetworkManagerChange ==
    /\ pc = "scan_loop"
    /\ idx <= Len(networks)
    /\ \E nm \in NmcliResponses \ {nmcli} : nmcli' = nm
    /\ UNCHANGED <<pc, user, argv, matches, networks, idx, query, stdout, stdoutOk,
                   result, panic, exitStatus, isRoot, scanCalls, wifiCalls>>

\* The reader of the standard output goes away while the process runs: from
\* then on every write to it fails.
StdoutBreaks ==
    /\ pc # "exit"
    /\ stdoutOk
    /\ stdoutOk' = FALSE
    /\ UNCHANGED <<pc, user, argv, matches, nmcli, networks, idx, query, stdout,
                   result, panic, exitStatus, isRoot, scanCalls, wifiCalls>>

ClassIdle == sigA = F32_Zero /\ sigB = F32_Zero /\ retA = <<>> /\ retB = <<>>

Init ==
    /\ pc = "main"
    /\ user \in Users
    /\ argv \in CommandLines
    /\ matches = NoMatches
    /\ nmcli \in NmcliResponses
    /\ networks = <<>>
    /\ idx = 0
    /\ query = <<>>
    /\ stdout = <<>>
    /\ stdoutOk \in BOOLEAN
    /\ result = "none"
    /\ panic = ""
    /\ exitStatus = -1
    /\ isRoot = <<>>
    /\ scanCalls = 0
    /\ wifiCalls = <<>>
    /\ ClassIdle

Next ==
    \/ MainIsRoot /\ UNCHANGED classVars
    \/ MainSubcommand /\ UNCHANGED classVars
    \/ ScanNetworks /\ UNCHANGED classVars
    \/ ScanTableFormat /\ UNCHANGED classVars
    \/ ScanReturn /\ UNCHANGED classVars
    \/ Connect /\ UNCHANGED classVars
    \/ NetworkManagerChange /\ UNCHANGED classVars
    \/ StdoutBreaks /\ UNCHANGED classVars

Spec == Init /\ [][Next]_vars

\* ------------------------------------------------ the classifier on its own

\* The signal values: the f32 nearest to every multiple of 1/Scale dBm in the
\* range, and the floats that are no ordinary number.
Ordinary ==
    {RoundSmall(v, Scale) : v \in (-MaxAbsDbm * Scale)..(MaxPosDbm * Scale)}
Signals == Ordinary \cup {F32_NaN, F32_Inf, F32_NegInf}

Thresholds == {-30, -50, -60, -67, -70, -80}

\* The f32 next to x on the side of the sign of k.
Neighbour(x, k) == F32(x.m + k, x.e)

\* Each threshold with the f32 just below and just above it, the ends of the
\* range, 0.0, and the floats that are no ordinary number.
Probes ==
    {Neighbour(RoundSmall(t, 1), k) : t \in Thresholds, k \in {-1, 0, 1}}
    \cup {RoundSmall(-MaxAbsDbm, 1), F32_Zero, RoundSmall(MaxPosDbm, 1)}
    \cup {F32_NaN, F32_Inf, F32_NegInf}

ProgIdle ==
    /\ pc = "exit" /\ user = [ok |-> TRUE, name |-> "root"]
    /\ argv = NoMatches /\ matches = NoMatches
    /\ nmcli = Nmcli(TRUE, TRUE, <<>>)
    /\ networks = <<>> /\ idx = 0 /\ query = <<>> /\ stdout = <<>> /\ stdoutOk = TRUE
    /\ result = "none" /\ panic = "" /\ exitStatus = -1 /\ isRoot = <<>>
    /\ scanCalls = 0 /\ wifiCalls = <<>>

ClassifyInit ==
    /\ ProgIdle
    /\ sigA \in Signals
    /\ sigB \in Probes
    /\ retA = <<>>
    /\ retB = <<>>

\* dBm_signal_measure is called on each of the two inputs.
Classify ==
    /\ retA = <<>>
    /\ retA' = <<dBm_return(sigA)>>
    /\ retB' = <<dBm_return(sigB)>>
    /\ UNCHANGED <<sigA, sigB, progVars>>

ClassifyNext == Classify

SpecClassify == ClassifyInit /\ [][ClassifyNext]_vars

\* ------------------------------------------------------------------ claims

\* The text of s up to its first line feed, all of s when it has none.
RECURSIVE FirstLine(_)
FirstLine(s) ==
    IF s = <<>> \/ Head(s) = "\n" THEN <<>> ELSE <<Head(s)>> \o FirstLine(Tail(s))

HasColon(s) == \E i \in 1..Len(s) : s[i] = ":"
ColonAt(s) == CHOOSE i \in 1..Len(s) : s[i] = ":" /\ \A j \in 1..(i - 1) : s[j] # ":"
BeforeColon(s) == SubSeq(s, 1, ColonAt(s) - 1)
AfterColon(s) == SubSeq(s, ColonAt(s) + 1, Len(s))

Sign(x) == IF x.m > 0 THEN 1 ELSE IF x.m < 0 THEN -1 ELSE 0

\* a <= b as floats: false when either is NaN.  Of two floats of one sign the
\* one of the larger exponent, and then of the larger mantissa, is the one
\* farther from zero.
FloatLe(a, b) ==
    /\ ~IsNaN(a)
    /\ ~IsNaN(b)
    /\ IF Sign(a) # Sign(b) THEN Sign(a) < Sign(b)
       ELSE IF Sign(a) = 0 THEN TRUE
       ELSE IF Sign(a) > 0 THEN a.e < b.e \/ (a.e = b.e /\ a.m <= b.m)
       ELSE a.e > b.e \/ (a.e = b.e /\ a.m <= b.m)

\* The thresholds as floats.
Levels == [k \in Thresholds |-> RoundSmall(k, 1)]
Level(k) == Levels[k]

\* The tier of the table of the specification, for an ordinary number.
TableTier(x) ==
    IF FloatLe(Level(-30), x) THEN "Maximum"
    ELSE IF FloatLe(Level(-50), x) THEN "Excellent"
    ELSE IF FloatLe(Level(-60), x) THEN "Good"
    ELSE IF FloatLe(Level(-67), x) THEN "Reliable"
    ELSE IF FloatLe(Level(-70), x) THEN "Weak"
    ELSE IF FloatLe(Level(-80), x) THEN "Unreliable"
    ELSE "Bad"

IsOrdinary(x) == x.e # 128

\* C1: for every ordinary signal value, dBm_signal_measure returns the tier of
\* the table, each tier owning its lower boundary, and the trailing
\* "return Bad" of line 137 is not the statement that returns.
C1_TableTier ==
    /\ (retA # <<>> /\ IsOrdinary(sigA))
           => (retA[1].tier = TableTier(sigA) /\ retA[1].line # 137)
    /\ (retB # <<>> /\ IsOrdinary(sigB))
           => (retB[1].tier = TableTier(sigB) /\ retB[1].line # 137)

\* The boundary -30 was classified as Maximum, and the float just below it
\* as Excellent.
C1_Witness ==
    /\ retA # <<>>
    /\ retB # <<>>
    /\ sigA = Level(-30)
    /\ retA[1].tier = "Maximum"
    /\ sigB = Neighbour(Level(-30), -1)
    /\ retB[1].tier = "Excellent"

Rank(tier) ==
    CASE tier = "Bad" -> 0 [] tier = "Unreliable" -> 1 [] tier = "Weak" -> 2
      [] tier = "Reliable" -> 3 [] tier = "Good" -> 4 [] tier = "Excellent" -> 5
      [] tier = "Maximum" -> 6

\* C2: dBm_signal_measure returns one of the seven tiers for every input, NaN
\* and the infinities included, and for two inputs a <= b the tier of b is at
\* least as good as the tier of a.
C2_TotalMonotonic ==
    retA # <<>> =>
        /\ retB # <<>>
        /\ retA[1].tier \in Tiers
        /\ retB[1].tier \in Tiers
        /\ FloatLe(sigA, sigB) => Rank(retA[1].tier) <= Rank(retB[1].tier)
        /\ FloatLe(sigB, sigA) => Rank(retB[1].tier) <= Rank(retA[1].tier)

\* Two inputs on the two sides of a boundary were classified, the larger one
\* into the better tier.
C2_Witness ==
    /\ retA # <<>>
    /\ retB # <<>>
    /\ FloatLe(sigA, sigB)
    /\ sigA # sigB
    /\ Rank(retA[1].tier) < Rank(retB[1].tier)

\* The first entry of the snapshot nmcli wrote, as an (active, ssid) pair: the
\* first line up to its line feed, split at its first colon, the ssid taken
\* exactly as written.  No entry when the output is empty or the line has no
\* colon.
HasFirstEntry(out) == HasColon(FirstLine(out))
FirstActive(out) == Trim(BeforeColon(FirstLine(out)))
FirstSsid(out) == AfterColon(FirstLine(out))

\* C3 as stated: is_connected returns true exactly when the first entry is
\* active and its ssid equals the target exactly, also for an ssid that ends
\* with whitespace.
C3_ExactSsid ==
    (query # <<>> /\ query[1].ret.panic = "") =>
        LET out == query[1].nm.stdout
        IN  query[1].ret.value =
                (/\ HasFirstEntry(out)
                 /\ FirstActive(out) = S_yes
                 /\ FirstSsid(out) = query[1].ssid)

\* C3 as amended: is_connected returns true exactly when the first line of the
\* output, with the whitespace around the line removed, is "yes", a colon and
\* the target, compared case-sensitively; lines after the first never change
\* the result.
C3_TrimmedFirstLine ==
    (query # <<>> /\ query[1].ret.panic = "") =>
        LET line == Trim(FirstLine(query[1].nm.stdout))
        IN  query[1].ret.value =
                (/\ HasColon(line)
                 /\ BeforeColon(line) = S_yes
                 /\ AfterColon(line) = query[1].ssid)

\* is_connected ran on an output whose second entry is the active one and
\* names the target, and returned false.
C3_Witness ==
    /\ query # <<>>
    /\ query[1].ssid = S_cd
    /\ query[1].nm.stdout = Line(<<"n", "o">>, S_ab) \o Line(S_yes, S_cd)
    /\ query[1].ret = Returned(FALSE)

\* C4: whatever nmcli wrote, is_connected returns; it returns false for an
\* empty output, a whitespace-only first line, a first line without a colon,
\* a first entry that is not active and an ssid that differs (the line read
\* with the whitespace around it removed); the only panic in it is the one
\* for an nmcli that could not be started, and taking element [0] never is
\* one.
C4_NeverRaises ==
    /\ panic \in {"", "Cannot scan network", "failed to run nmcli", PrintPanic}
    /\ query # <<>> =>
        LET out == query[1].nm.stdout
            line == Trim(FirstLine(out))
        IN  /\ query[1].nm.spawn <=> query[1].ret.panic = ""
            /\ query[1].nm.spawn => panic # "failed to run nmcli"
            /\ query[1].ret.panic \in {"", "failed to run nmcli"}
            /\ ( \/ out = <<>>
                 \/ line = <<>>
                 \/ ~HasColon(line)
                 \/ BeforeColon(line) # S_yes
                 \/ AfterColon(line) # query[1].ssid )
               => query[1].ret.value = FALSE

\* is_connected ran on an empty output and returned false.
C4_Witness ==
    /\ query # <<>>
    /\ query[1].nm.spawn
    /\ query[1].nm.stdout = <<>>
    /\ query[1].ret = Returned(FALSE)

\* The report rows written so far: three parts each.
RowCount == Len(stdout) \div 3
RowHead(i) == stdout[3 * i - 2]
RowTier(i) == stdout[3 * i - 1]
RowSecurity(i) == stdout[3 * i]
InScan == scanCalls > 0 /\ pc \in {"scan_loop", "exit"} /\ panic # "Cannot scan network"

\* The text t is the text s followed by nothing but the spaces that fill it
\* up to four characters.
ShowsUnchanged(t, s) ==
    /\ Len(t) = (IF Len(s) < 4 THEN 4 ELSE Len(s))
    /\ SubSeq(t, 1, Len(s)) = s
    /\ \A k \in (Len(s) + 1)..Len(t) : t[k] = " "

\* A text that is no number: it has no digit and is not, sign apart, one of
\* the names of infinity and NaN.
NonNumeric(s) ==
    /\ \A i \in 1..Len(s) : s[i] \notin Digits
    /\ LET word == LowerAll(IF s # <<>> /\ Head(s) \in {"+", "-"} THEN Tail(s) ELSE s)
       IN  word \notin {<<"i", "n", "f">>, <<"n", "a", "n">>,
                        <<"i", "n", "f", "i", "n", "i", "t", "y">>}

\* C5: a signal_level that does not parse never stops the row: with 0.0 in
\* its place the row is written whole, its tier is Maximum, and the
\* signal_level text is shown as it was given.  A row is only ever stopped by
\* an nmcli that could not be started or a standard output that could not be
\* written, whatever its signal_level.
C5_UnparsableSignal ==
    InScan =>
        /\ Len(stdout) = 3 * RowCount
        /\ RowCount = idx - 1
        /\ panic # "" => (~query[1].nm.spawn \/ ~stdoutOk)
        /\ \A i \in 1..RowCount :
             /\ RowHead(i).kind = "row"
             /\ RowTier(i).kind = "tier"
             /\ RowSecurity(i).kind = "security"
             /\ ShowsUnchanged(RowHead(i).text[5], networks[i].signal_level)
             /\ NonNumeric(networks[i].signal_level)
                    => RowTier(i).text = <<"Maximum">>

\* A row was printed for a network with an empty signal_level and one for a
\* network with a signal_level that is no number.
C5_Witness ==
    /\ InScan
    /\ RowCount >= 2
    /\ networks[1].signal_level = <<>>
    /\ networks[2].signal_level = <<"n", "/", "a">>
    /\ RowTier(1).text = <<"Maximum">>
    /\ RowTier(2).text = <<"Maximum">>

\* C6 as stated: in one report, no two rows are marked current for different
\* ssids, and two rows with the same ssid carry the same mark.
C6_OneSnapshot ==
    InScan =>
        \A i, j \in 1..RowCount :
            /\ (RowHead(i).text[1] = "*" /\ RowHead(j).text[1] = "*")
                   => RowHead(i).text[3] = RowHead(j).text[3]
            /\ RowHead(i).text[3] = RowHead(j).text[3]
                   => RowHead(i).text[1] = RowHead(j).text[1]

\* The process does not pass the privilege check.
NotPrivileged == ~user.ok \/ user.name # "root"

\* C7 as stated: when USER is unset, unreadable or not root the process ends with exit
\* status 2 at the gate and never scans, queries nmcli or connects; a scan or
\* a connect only starts after is_root returned true.
C7_PrivilegeGate ==
    /\ (NotPrivileged /\ pc # "main") =>
           /\ pc = "exit"
           /\ exitStatus = 2
           /\ isRoot = <<FALSE>>
           /\ scanCalls = 0
           /\ query = <<>>
           /\ wifiCalls = <<>>
           /\ \A i \in 1..Len(stdout) : stdout[i].kind = "message"
    /\ (pc \in {"scan", "scan_loop", "connect"} \/ scanCalls > 0
            \/ query # <<>> \/ wifiCalls # <<>>)
           => isRoot = <<TRUE>>

\* The nmcli run behind the last is_connected failed: it could not be started,
\* or it ended with failure.
QueryFailed == query # <<>> /\ (~query[1].nm.spawn \/ ~query[1].nm.success)

\* C8 as stated: when the scan or the nmcli run fails, the flow stops with an
\* error, and no row carries a mark taken from a failed nmcli run.
C8_FailFast ==
    /\ QueryFailed => (query[1].ret.panic # "" /\ pc = "exit" /\ exitStatus # 0)
    /\ (scanCalls > 0 /\ pc = "exit" /\ panic = "Cannot scan network")
           => (exitStatus # 0 /\ stdout = <<>>)

\* The row printed for the network n.
IsRowOf(i, n) ==
    /\ RowHead(i).kind = "row"
    /\ SubSeq(RowHead(i).text, 2, 5) = <<n.mac, n.ssid, n.channel, Pad(n.signal_level, 4)>>
    /\ RowTier(i).kind = "tier"
    /\ RowSecurity(i) = Printed("security", <<n.security>>)

\* C9: a scan that ends with Ok has printed exactly one row per network, in
\* the order of the list, none left out or merged; while the loop runs the
\* rows of the networks before the current one are all there, whole.
C9_OneRowEach ==
    /\ (InScan /\ result = "Ok") =>
           /\ Len(stdout) = 3 * Len(networks)
           /\ exitStatus = 0
    /\ (InScan /\ panic = "") =>
           /\ Len(stdout) = 3 * (idx - 1)
           /\ \A i \in 1..(idx - 1) : IsRowOf(i, networks[i])

\* A scan ended with Ok after two networks with the same ssid.
C9_Witness ==
    /\ InScan
    /\ result = "Ok"
    /\ Len(networks) >= 2
    /\ networks[1].ssid = networks[2].ssid
    /\ networks[1].mac # networks[2].mac

\* C10 as stated: connect makes exactly one call of WiFi::connect, with the ssid and
\* password given and the interface given, wlan0 when none is; whatever that
\* call returns, connect returns Ok and the process ends with status 0.
C10_ConnectOk ==
    /\ Len(wifiCalls) <= 1
    /\ (pc = "exit" /\ matches.sub = "connect") => Len(wifiCalls) = 1
    /\ wifiCalls # <<>> =>
           /\ wifiCalls[1].ssid = argv.ssid.v
           /\ wifiCalls[1].password = argv.password.v
           /\ wifiCalls[1].interface =
                  (IF argv.interface.some THEN argv.interface.v
                   ELSE <<"w", "l", "a", "n", "0">>)
           /\ stdout = <<Printed("status", <<"Connection Status", wifiCalls[1].returned>>)>>
           /\ pc = "exit"
           /\ result = "Ok"
           /\ exitStatus = 0

====
